---- MODULE Spec2Model ----
(***************************************************************************)
(* Active-space reduction (ActiveSpaceTransformer.transform) and the       *)
(* composite-property data model of qiskit-nature, as a state machine.     *)
(*                                                                         *)
(* Python values are modelled with their type: an optional value is a      *)
(* sequence of length 0 (None) or 1; orbital index o (0-based) addresses   *)
(* position o + 1 of an occupation vector or of a coefficient matrix's     *)
(* column list.  A coefficient matrix is the sequence of its columns, a    *)
(* column is an opaque symbol; a density matrix is kept symbolically as    *)
(* the sequence of (column, occupation) pairs it is contracted from.       *)
(***************************************************************************)
EXTENDS Integers, Sequences, FiniteSets, TLC

VARIABLES
    cfg,            \* the transformer's construction-time configuration
    mo_occ_total,   \* ActiveSpaceTransformer._mo_occ_total
    num_particles,  \* ActiveSpaceTransformer._num_particles
    molecule_data,  \* the composite handed to the most recent transform call
    outcome,        \* what the most recent transform call returned or raised
    reduced_input,  \* TRUE iff molecule_data is the composite the previous call returned
    properties,     \* CompositeProperty._properties (an insertion-ordered dict)
    added,          \* every property handed to add_property so far, in call order
    gen,            \* the generator object of the current traversal
    trail,          \* what that traversal has yielded, and what it was sent back
    num_modals,     \* second_q_op.num_modals of the operator handed to DirectMapper.map
    pauli_table,    \* the pauli_table DirectMapper.map has built
    electronic_integrals, \* IntegralProperty._electronic_integrals
    ops             \* what the most recent call on the IntegralProperty returned or raised

asvars == <<cfg, mo_occ_total, num_particles, molecule_data, outcome, reduced_input>>
cpvars == <<properties, added, gen, trail>>
dmvars == <<num_modals, pauli_table>>
ipvars == <<electronic_integrals, ops>>
vars == <<cfg, mo_occ_total, num_particles, molecule_data, outcome, reduced_input,
          properties, added, gen, trail, num_modals, pauli_table,
          electronic_integrals, ops>>

----------------------------------------------------------------------------
(* Bounds of the model *)

\* the largest number of spatial orbitals of a supplied system
MaxOrbitals == 2
\* the largest number of entries of an explicit active-orbital index list
MaxActive == 2
\* the number of distinguishable property objects of one name
MaxVersions == 2
\* the largest number of properties handed to one composite
MaxAdds == 3
\* the largest number of modes of a vibrational operator
MaxModes == 4
\* the largest number of modals of one mode
MaxModals == 3
\* the highest body order of the integrals held for one basis
MaxBody == 3

----------------------------------------------------------------------------
(* Python values *)

None == <<>>
Some(x) == <<x>>
IsNone(o) == o = <<>>
The(o) == o[1]

PyNone == [t |-> "none", v |-> <<>>]
PyInt(n) == [t |-> "int", v |-> <<n>>]
PyFloat(n) == [t |-> "float", v |-> <<n>>]
PyTuple(s) == [t |-> "tuple", v |-> s]
PyList(s) == [t |-> "list", v |-> s]

\* isinstance(x, int)
IsInt(x) == x.t = "int"
\* isinstance(x, tuple)
IsTuple(x) == x.t = "tuple"
IntOf(x) == x.v[1]

RECURSIVE SumSeq(_)
SumSeq(s) == IF s = <<>> THEN 0 ELSE s[1] + SumSeq(Tail(s))

RECURSIVE MaxSeq(_)
MaxSeq(s) == IF Len(s) = 1 THEN s[1]
             ELSE LET r == MaxSeq(Tail(s)) IN IF s[1] >= r THEN s[1] ELSE r

\* list(range(a, b))
Range(a, b) == [i \in 1..(IF b > a THEN b - a ELSE 0) |-> a + i - 1]

\* array[idxs] and matrix[:, idxs] for a list of 0-based indices
Take(arr, idxs) == [i \in 1..Len(idxs) |-> arr[idxs[i] + 1]]

InSeq(x, s) == \E i \in 1..Len(s) : s[i] = x

----------------------------------------------------------------------------
(* Errors *)

NoError == [exc |-> "", msg |-> "", value |-> PyNone, context |-> ""]
\* QiskitNatureError(msg, str(value))
QiskitNatureError(msg, value) ==
    [exc |-> "QiskitNatureError", msg |-> msg, value |-> value, context |-> ""]
\* an exception of the interpreter or of the array library
BuiltinError(exc) == [exc |-> exc, msg |-> "", value |-> PyNone, context |-> ""]

IncorrectConfiguration == "Incorrect Active-Space configuration."

\* a variant that lets the error through as it is
RaiseBare(err) == err

\* raise QiskitNatureError("Incorrect Active-Space configuration.") from exc
RaiseFrom(err) == [err EXCEPT !.context = IncorrectConfiguration]

MsgElectronsEven == "The number of active electrons must be even!"
MsgElectronsNegative == "The number of active electrons cannot be negative:"
MsgAlphaBetaNegative == "Neither the number of alpha, nor the number of beta electrons can be negative:"
MsgElectronsType == "The number of active electrons must be an int, or a tuple thereof, not:"
MsgOrbitalsNegative == "The number of active orbitals cannot be negative:"
MsgOrbitalsType == "The number of active orbitals must be an int, not:"
MsgMoreElectrons == "More electrons requested than available."
MsgInactiveEven == "The number of inactive electrons must be even."
MsgMoreOrbitals == "More orbitals requested than available."
MsgIndicesCount == "The number of selected active orbital indices does not match the specified number of active orbitals."
MsgElectronsMismatch == "The number of electrons in the selected active orbitals does not match the specified number of active electrons."

----------------------------------------------------------------------------
(* ActiveSpaceTransformer._check_configuration *)

\* the first branch: the checks of self._num_electrons
CheckNumElectrons(c) ==
    LET ne == c.num_electrons IN
    IF IsInt(ne) THEN
        IF IntOf(ne) % 2 # 0 THEN QiskitNatureError(MsgElectronsEven, ne)
        ELSE IF IntOf(ne) < 0 THEN QiskitNatureError(MsgElectronsNegative, ne)
        ELSE NoError
    ELSE IF IsTuple(ne) THEN
        IF ~ (\A i \in 1..Len(ne.v) : IsInt(ne.v[i]) /\ IntOf(ne.v[i]) >= 0)
        THEN QiskitNatureError(MsgAlphaBetaNegative, ne)
        ELSE NoError
    ELSE QiskitNatureError(MsgElectronsType, ne)

\* the second branch: the checks of self._num_molecular_orbitals
CheckNumOrbitals(c) ==
    LET nmo == c.num_molecular_orbitals IN
    IF IsInt(nmo) THEN
        IF IntOf(nmo) < 0 THEN QiskitNatureError(MsgOrbitalsNegative, nmo)
        ELSE NoError
    ELSE QiskitNatureError(MsgOrbitalsType, c.num_electrons)

_check_configuration(c) ==
    IF CheckNumElectrons(c) # NoError THEN CheckNumElectrons(c)
    ELSE CheckNumOrbitals(c)

----------------------------------------------------------------------------
(* Properties and composites *)

\* a variant of the dict assignment that moves an existing key to the end
DictSetLast(d, key, prop) ==
    Append(SelectSeq(d, LAMBDA e : e.name # key), prop)

\* CompositeProperty.add_property / ElectronicDriverResult.add_property and
\* properties[key] = prop: a dict assignment.  An existing key keeps its
\* position, a new key goes last.
DictSet(d, key, prop) ==
    IF \E i \in 1..Len(d) : d[i].name = key
    THEN [i \in 1..Len(d) |-> IF d[i].name = key THEN prop ELSE d[i]]
    ELSE Append(d, prop)

\* dict.get(key, None)
DictGet(d, key) ==
    IF \E i \in 1..Len(d) : d[i].name = key
    THEN Some(d[CHOOSE i \in 1..Len(d) : d[i].name = key])
    ELSE None

add_property(d, prop) == DictSet(d, prop.name, prop)

\* the data a ParticleNumber holds
ParticleNumberData(num_spin_orbitals, particles, occ_a, occ_b) ==
    [num_spin_orbitals |-> num_spin_orbitals,
     num_alpha |-> particles[1], num_beta |-> particles[2],
     occupation_alpha |-> occ_a, occupation_beta |-> occ_b]

\* a property: its name, whether its reduce_system_size is supported, who made
\* it, and for a ParticleNumber its data
Property(name, reducible, origin, pn) ==
    [name |-> name, reducible |-> reducible, origin |-> origin, pn |-> pn]

\* ParticleNumber(num_spin_orbitals, num_particles, occupation, occupation_beta),
\* as constructed by the transformer
ParticleNumber(num_spin_orbitals, particles, occ_a, occ_b) ==
    Property("ParticleNumber", FALSE, "transformer",
             Some(ParticleNumberData(num_spin_orbitals, particles, occ_a, occ_b)))

\* ElectronicBasisTransform(AO, MO, coeff_alpha, coeff_beta)
ElectronicBasisTransform(coeff_alpha, coeff_beta) ==
    [coeff_alpha |-> coeff_alpha, coeff_beta |-> coeff_beta]

\* ElectronicDriverResult(): no properties, no basis transform
ElectronicDriverResult == [properties |-> <<>>, electronic_basis_transform |-> None]

\* prop.reduce_system_size(density_inactive, transform): the reduced property,
\* or None for NotImplementedError
reduce_system_size(prop, density_inactive, transform) ==
    IF prop.reducible THEN Some([prop EXCEPT !.origin = "reduced"]) ELSE None

----------------------------------------------------------------------------
(* ActiveSpaceTransformer: working state *)

\* the working fields a freshly constructed transformer holds
FreshState == [mo_occ_total |-> None, num_particles |-> None]

\* a variant that keeps the occupations of an earlier call
SetMoOccTotalStale(st, occ_a, occ_b) ==
    IF IsNone(st.mo_occ_total)
    THEN [st EXCEPT !.mo_occ_total = Some([i \in 1..Len(occ_a) |-> occ_a[i] + occ_b[i]])]
    ELSE st

\* self._mo_occ_total = mo_occ_full[0] + mo_occ_full[1]
SetMoOccTotal(st, occ_a, occ_b) ==
    [st EXCEPT !.mo_occ_total = Some([i \in 1..Len(occ_a) |-> occ_a[i] + occ_b[i]])]

\* self._num_particles = (num_alpha, num_beta)
SetNumParticles(st, na, nb) == [st EXCEPT !.num_particles = Some(<<na, nb>>)]

----------------------------------------------------------------------------
(* ActiveSpaceTransformer._validate_num_electrons *)

\* a variant without the parity check
ValidateNoOddCheck(nelec_inactive) ==
    IF nelec_inactive < 0 THEN QiskitNatureError(MsgMoreElectrons, PyNone)
    ELSE NoError

_validate_num_electrons(nelec_inactive) ==
    IF nelec_inactive < 0 THEN QiskitNatureError(MsgMoreElectrons, PyNone)
    ELSE IF nelec_inactive % 2 # 0 THEN QiskitNatureError(MsgInactiveEven, PyNone)
    ELSE NoError

----------------------------------------------------------------------------
(* ActiveSpaceTransformer._validate_num_orbitals *)

\* sum(self._mo_occ_total[self._active_orbitals]) != self._num_electrons, for a
\* single total
OccupationDiffers(c, st) ==
    SumSeq(Take(The(st.mo_occ_total), c.active_orbitals.v)) # IntOf(c.num_electrons)

_validate_num_orbitals(c, st, nelec_inactive, pn) ==
    LET m == IntOf(c.num_molecular_orbitals)
        norbs == pn.num_spin_orbitals \div 2
    IN
    IF c.active_orbitals = PyNone THEN
        IF (nelec_inactive \div 2) + m > norbs
        THEN QiskitNatureError(MsgMoreOrbitals, PyNone)
        ELSE NoError
    ELSE
        LET act == c.active_orbitals.v IN
        IF m # Len(act) THEN QiskitNatureError(MsgIndicesCount, PyNone)
        ELSE IF act = <<>> THEN BuiltinError("ValueError")
        ELSE IF MaxSeq(act) >= norbs THEN QiskitNatureError(MsgMoreOrbitals, PyNone)
        ELSE IF \E i \in 1..Len(act) : act[i] >= Len(The(st.mo_occ_total))
             THEN BuiltinError("IndexError")
        \* an array sum compared with a tuple is an array of two truth
        \* values, which the if statement refuses to read as one
        ELSE IF IsTuple(c.num_electrons) THEN BuiltinError("ValueError")
        ELSE IF OccupationDiffers(c, st)
             THEN QiskitNatureError(MsgElectronsMismatch, PyNone)
        ELSE NoError

----------------------------------------------------------------------------
(* ActiveSpaceTransformer._determine_active_space *)

\* molecule_data.properties["ParticleNumber"]
ParticleNumberOf(mol) == The(The(DictGet(mol.properties, "ParticleNumber")).pn)

\* num_alpha, num_beta = self._num_electrons, or the halves of a single total
RequestedParticles(c) ==
    IF IsTuple(c.num_electrons)
    THEN <<IntOf(c.num_electrons.v[1]), IntOf(c.num_electrons.v[2])>>
    ELSE <<IntOf(c.num_electrons) \div 2, IntOf(c.num_electrons) \div 2>>

\* nelec_total = _num_alpha + _num_beta of the ParticleNumber
NelecTotal(pn) == pn.num_alpha + pn.num_beta

\* nelec_inactive = nelec_total - num_alpha - num_beta
NelecInactive(c, pn) == NelecTotal(pn) - RequestedParticles(c)[1] - RequestedParticles(c)[2]

\* the inactive orbitals when active_orbitals is given: the comprehension over
\* range(nelec_total // 2)
ExplicitInactive(c, st, pn) ==
    SelectSeq(Range(0, NelecTotal(pn) \div 2),
              LAMBDA o : ~ InSeq(o, c.active_orbitals.v) /\ The(st.mo_occ_total)[o + 1] > 0)

\* a variant whose active orbitals start at orbital 0
OrbitalIndicesFromZero(c, st, pn) ==
    IF c.active_orbitals = PyNone
    THEN <<Range(0, IntOf(c.num_molecular_orbitals)),
           Range(0, NelecInactive(c, pn) \div 2)>>
    ELSE <<c.active_orbitals.v, ExplicitInactive(c, st, pn)>>

\* the index lists chosen after validation: <<active_orbs_idxs, inactive_orbs_idxs>>
OrbitalIndices(c, st, pn) ==
    IF c.active_orbitals = PyNone
    THEN LET norbs_inactive == NelecInactive(c, pn) \div 2 IN
         <<Range(norbs_inactive, norbs_inactive + IntOf(c.num_molecular_orbitals)),
           Range(0, norbs_inactive)>>
    ELSE <<c.active_orbitals.v, ExplicitInactive(c, st, pn)>>

\* the whole method: the working state it leaves, the error it raises (or
\* NoError) and the index lists it returns
_determine_active_space(c, st, mol) ==
    LET pn == ParticleNumberOf(mol)
        np == RequestedParticles(c)
        st1 == SetNumParticles(st, np[1], np[2])
        e1 == _validate_num_electrons(NelecInactive(c, pn))
        e2 == _validate_num_orbitals(c, st1, NelecInactive(c, pn), pn)
    IN
    IF IsTuple(c.num_electrons) /\ Len(c.num_electrons.v) # 2
    THEN [st |-> st, err |-> BuiltinError("ValueError"), active |-> <<>>, inactive |-> <<>>]
    ELSE IF e1 # NoError
    THEN [st |-> st1, err |-> e1, active |-> <<>>, inactive |-> <<>>]
    ELSE IF e2 # NoError
    THEN [st |-> st1, err |-> e2, active |-> <<>>, inactive |-> <<>>]
    ELSE IF c.active_orbitals # PyNone /\ NelecTotal(pn) \div 2 > Len(The(st1.mo_occ_total))
    THEN [st |-> st1, err |-> BuiltinError("IndexError"), active |-> <<>>, inactive |-> <<>>]
    ELSE [st |-> st1, err |-> NoError,
          active |-> OrbitalIndices(c, st1, pn)[1],
          inactive |-> OrbitalIndices(c, st1, pn)[2]]

----------------------------------------------------------------------------
(* ActiveSpaceTransformer.transform *)

\* np.allclose(mo_coeff_full[0], mo_coeff_full[1]), as assigned to beta_spin
BetaSpin(ebt) == ebt.coeff_alpha = The(ebt.coeff_beta)

\* np.dot(mo_coeff_inactive * mo_occ_inactive, np.transpose(mo_coeff_inactive))
Density(coeff, occ, idxs) == [i \in 1..Len(idxs) |-> <<coeff[idxs[i] + 1], occ[idxs[i] + 1]>>]

\* density_inactive = (density_inactive_a, density_inactive_b)
DensityInactive(ebt, pn, inactive) ==
    <<Some(Density(ebt.coeff_alpha, pn.occupation_alpha, inactive)),
      IF BetaSpin(ebt)
      THEN Some(Density(The(ebt.coeff_beta), pn.occupation_beta, inactive))
      ELSE None>>

\* the ElectronicBasisTransform of the active orbitals
ActiveTransform(ebt, active) ==
    ElectronicBasisTransform(
        Take(ebt.coeff_alpha, active),
        IF BetaSpin(ebt) THEN Some(Take(The(ebt.coeff_beta), active)) ELSE None)

\* the loop over molecule_data.properties.values(): add every property whose
\* reduce_system_size returns, skip those raising NotImplementedError
RECURSIVE ReduceProperties(_, _, _, _)
ReduceProperties(props, density_inactive, transform, acc) ==
    IF props = <<>> THEN acc
    ELSE LET r == reduce_system_size(Head(props), density_inactive, transform) IN
         ReduceProperties(Tail(props), density_inactive, transform,
                          IF IsNone(r) THEN acc ELSE add_property(acc, The(r)))

\* a variant that keeps a ParticleNumber the loop has already added
KeepReducedParticleNumber(reduced, c, st, pn, active) ==
    IF IsNone(DictGet(reduced, "ParticleNumber"))
    THEN DictSet(reduced, "ParticleNumber",
             ParticleNumber(IntOf(c.num_molecular_orbitals) \div 2, The(st.num_particles),
                            Take(pn.occupation_alpha, active),
                            Take(pn.occupation_beta, active)))
    ELSE reduced

\* molecule_data_reduced.properties["ParticleNumber"] = ParticleNumber(...)
StoreParticleNumber(reduced, c, st, pn, active) ==
    DictSet(reduced, "ParticleNumber",
        ParticleNumber(IntOf(c.num_molecular_orbitals) \div 2, The(st.num_particles),
                       Take(pn.occupation_alpha, active),
                       Take(pn.occupation_beta, active)))

\* the composite the call returns
ReducedComposite(c, st, mol, active, inactive) ==
    LET ebt == The(mol.electronic_basis_transform)
        pn == ParticleNumberOf(mol)
        reduced == ReduceProperties(mol.properties, DensityInactive(ebt, pn, inactive),
                                    ActiveTransform(ebt, active),
                                    ElectronicDriverResult.properties)
    IN [ElectronicDriverResult EXCEPT
            !.properties = StoreParticleNumber(reduced, c, st, pn, active)]

\* What a call leaves behind.  stage is the last step the call entered:
\* "configuration" (_check_configuration), "input" (reading the composite),
\* "active_space" (_determine_active_space), "numeric" (densities, basis
\* transform, reduction of the properties).
Raised(st, err, stage) ==
    [st |-> st,
     out |-> [kind |-> "error", error |-> err, stage |-> stage, ret |-> None,
              active |-> <<>>, inactive |-> <<>>,
              density |-> <<None, None>>, transform |-> None]]

Returned(st, c, mol, active, inactive) ==
    LET ebt == The(mol.electronic_basis_transform) IN
    [st |-> st,
     out |-> [kind |-> "ok", error |-> NoError, stage |-> "numeric",
              ret |-> Some(ReducedComposite(c, st, mol, active, inactive)),
              active |-> active, inactive |-> inactive,
              density |-> DensityInactive(ebt, ParticleNumberOf(mol), inactive),
              transform |-> Some(ActiveTransform(ebt, active))]]

NoCall == [kind |-> "none", error |-> NoError, stage |-> "", ret |-> None,
           active |-> <<>>, inactive |-> <<>>,
           density |-> <<None, None>>, transform |-> None]

\* transform(molecule_data) of a transformer configured with c whose working
\* fields are st
transform(c, st, mol) ==
    IF _check_configuration(c) # NoError
    THEN Raised(st, RaiseFrom(_check_configuration(c)), "configuration")
    ELSE IF IsNone(mol.electronic_basis_transform)
    THEN Raised(st, BuiltinError("AttributeError"), "input")
    ELSE IF IsNone(DictGet(mol.properties, "ParticleNumber"))
    THEN Raised(st, BuiltinError("KeyError"), "input")
    ELSE
        LET pn == ParticleNumberOf(mol)
            st1 == SetMoOccTotal(st, pn.occupation_alpha, pn.occupation_beta)
            das == _determine_active_space(c, st1, mol)
        IN
        IF das.err # NoError
        THEN Raised(das.st, das.err, "active_space")
        ELSE Returned(das.st, c, mol, das.active, das.inactive)

----------------------------------------------------------------------------
(* The configurations a transformer is constructed with *)

\* num_electrons as _check_configuration accepts it: an even total or an
\* (alpha, beta) pair
GoodElectronCounts ==
    {PyInt(2 * n) : n \in 0..MaxOrbitals}
    \cup {PyTuple(<<PyInt(a), PyInt(b)>>) : a \in 0..MaxOrbitals, b \in 0..MaxOrbitals}

\* num_electrons as _check_configuration rejects it, and a tuple of three
BadElectronCounts ==
    {PyInt(2 * n - 1) : n \in 0..MaxOrbitals}
    \cup {PyInt(-2), PyTuple(<<PyInt(-1), PyInt(1)>>), PyTuple(<<PyInt(1), PyFloat(1)>>),
          PyTuple(<<PyInt(1), PyInt(1), PyInt(0)>>), PyFloat(2), PyNone}

\* num_molecular_orbitals, accepted and rejected
GoodOrbitalCounts == {PyInt(n) : n \in 0..(MaxOrbitals + 1)}
BadOrbitalCounts == {PyInt(-1), PyFloat(1), PyNone}

\* active_orbitals: None or a list of increasing orbital indices, the index
\* MaxOrbitals lying outside every supplied system
IndexLists ==
    {s \in UNION {[1..n -> 0..MaxOrbitals] : n \in 0..MaxActive} :
        \A i \in 1..(Len(s) - 1) : s[i] < s[i + 1]}

ActiveOrbitals == {PyNone} \cup {PyList(s) : s \in IndexLists}

Config(ne, nmo, act) ==
    [num_electrons |-> ne, num_molecular_orbitals |-> nmo, active_orbitals |-> act]

\* configurations that select the active space around the Fermi level, the
\* malformed ones among them
FermiConfigs ==
    {Config(ne, nmo, PyNone) :
        ne \in GoodElectronCounts \cup BadElectronCounts,
        nmo \in GoodOrbitalCounts \cup BadOrbitalCounts}

\* configurations that name the active orbitals
ExplicitConfigs ==
    {Config(ne, nmo, PyList(s)) :
        ne \in GoodElectronCounts, nmo \in GoodOrbitalCounts, s \in IndexLists}

Configs == FermiConfigs \cup ExplicitConfigs

----------------------------------------------------------------------------
(* The composites a caller supplies *)

\* the columns of a coefficient matrix of n orbitals in one spin channel
Columns(spin, n) == [i \in 1..n |-> <<spin, i>>]

\* A driver result of Len(occ_a) spatial orbitals: an energy property that
\* reduces, the ParticleNumber, a property without reduce_system_size, and the
\* basis transform; a spin-restricted system has equal coefficient matrices.
Molecule(occ_a, occ_b, unrestricted, pn_reducible) ==
    [properties |->
        <<Property("ElectronicEnergy", TRUE, "source", None),
          Property("ParticleNumber", pn_reducible, "source",
                   Some(ParticleNumberData(2 * Len(occ_a),
                                           <<SumSeq(occ_a), SumSeq(occ_b)>>, occ_a, occ_b))),
          Property("AngularMomentum", FALSE, "source", None)>>,
     electronic_basis_transform |->
        Some(ElectronicBasisTransform(
                Columns("a", Len(occ_a)),
                Some(Columns(IF unrestricted THEN "b" ELSE "a", Len(occ_a)))))]

\* every system of up to MaxOrbitals orbitals
Molecules ==
    UNION {{Molecule(oa, ob, u, r) :
                oa \in [1..n -> {0, 1}], ob \in [1..n -> {0, 1}],
                u \in BOOLEAN, r \in BOOLEAN} : n \in 1..MaxOrbitals}

\* the spin-restricted systems whose ParticleNumber does not reduce itself
RestrictedMolecules ==
    UNION {{Molecule(oa, ob, FALSE, FALSE) :
                oa \in [1..n -> {0, 1}], ob \in [1..n -> {0, 1}]} : n \in 1..MaxOrbitals}

\* the composites a caller may pass next: the same one again, or one that
\* differs from it in the occupation of its last orbital or in having one
\* orbital more or less
Variants(mol) ==
    LET pn == ParticleNumberOf(mol)
        oa == pn.occupation_alpha
        ob == pn.occupation_beta
        n == Len(oa)
        u == ~ BetaSpin(The(mol.electronic_basis_transform))
        r == The(DictGet(mol.properties, "ParticleNumber")).reducible
    IN {mol, Molecule([oa EXCEPT ![n] = 1 - oa[n]], ob, u, r),
             Molecule(oa, [ob EXCEPT ![n] = 1 - ob[n]], u, r)}
       \cup (IF n < MaxOrbitals
             THEN {Molecule(Append(oa, 0), Append(ob, 0), u, r)} ELSE {})
       \cup (IF n > 1
             THEN {Molecule(SubSeq(oa, 1, n - 1), SubSeq(ob, 1, n - 1), u, r)} ELSE {})

----------------------------------------------------------------------------
(* The active-space state machine *)

Init ==
    /\ cfg \in Configs
    /\ mo_occ_total = None
    /\ num_particles = None
    /\ molecule_data \in RestrictedMolecules
    /\ outcome = NoCall
    /\ reduced_input = FALSE
    /\ properties = <<>>
    /\ added = <<>>
    /\ gen = None
    /\ trail = <<>>
    /\ num_modals = <<>>
    /\ pauli_table = None
    /\ electronic_integrals = <<>>
    /\ ops = None

\* the caller passes a driver result to transform
Transform ==
    /\ ~ reduced_input
    /\ \E mol \in Variants(molecule_data) :
        LET r == transform(cfg, [mo_occ_total |-> mo_occ_total,
                                 num_particles |-> num_particles], mol)
        IN /\ molecule_data' = mol
           /\ mo_occ_total' = r.st.mo_occ_total
           /\ num_particles' = r.st.num_particles
           /\ outcome' = r.out
    /\ UNCHANGED <<cfg, reduced_input>>
    /\ UNCHANGED cpvars
    /\ UNCHANGED <<dmvars, ipvars>>

\* the caller passes the composite the previous call returned to transform again
TransformAgain ==
    /\ outcome.kind = "ok"
    /\ LET mol == The(outcome.ret)
           r == transform(cfg, [mo_occ_total |-> mo_occ_total,
                                num_particles |-> num_particles], mol)
       IN /\ molecule_data' = mol
          /\ mo_occ_total' = r.st.mo_occ_total
          /\ num_particles' = r.st.num_particles
          /\ outcome' = r.out
    /\ reduced_input' = TRUE
    /\ UNCHANGED cfg
    /\ UNCHANGED cpvars
    /\ UNCHANGED <<dmvars, ipvars>>

Next == Transform \/ TransformAgain

Spec == Init /\ [][Next]_vars

\* the same machine over every kind of system, with the Fermi-level configurations
InitSpin ==
    /\ cfg \in FermiConfigs
    /\ mo_occ_total = None
    /\ num_particles = None
    /\ molecule_data \in Molecules
    /\ outcome = NoCall
    /\ reduced_input = FALSE
    /\ properties = <<>>
    /\ added = <<>>
    /\ gen = None
    /\ trail = <<>>
    /\ num_modals = <<>>
    /\ pauli_table = None
    /\ electronic_integrals = <<>>
    /\ ops = None

SpecSpin == InitSpin /\ [][Next]_vars

----------------------------------------------------------------------------
(* CompositeProperty: add_property, get_property, __iter__ / _generator *)

\* the names properties go by; a property kind is known by its class name
PropertyNames == {"ElectronicEnergy", "ParticleNumber", "AngularMomentum"}

\* the property objects a caller holds: several objects go by one name
PropertyObjects ==
    {[name |-> n, version |-> v] : n \in PropertyNames, v \in 1..MaxVersions}

\* the keys get_property takes: a name string or a property type
StrKey(n) == [t |-> "str", v |-> n]
TypeKey(k) == [t |-> "type", v |-> [__name__ |-> k]]

\* get_property(prop): name = prop if isinstance(prop, str) else prop.__name__
get_property(d, key) ==
    LET name == IF key.t = "str" THEN key.v ELSE key.v.__name__
    IN DictGet(d, name)

\* the generator object _generator() returns: not started yet
NewGenerator == [status |-> "created", pos |-> 0, used |-> 0, names |-> <<>>]

\* the names of a dict, in order
Keys(d) == [i \in 1..Len(d) |-> d[i].name]

\* Resuming the generator g over dict d up to its next yield.  The first
\* resumption creates the values() iterator, which remembers the dict's size;
\* the iterator raises RuntimeError when the size has changed, yields the
\* next entry, or ends the loop.
Resume(d, g) ==
    LET used == IF g.status = "created" THEN Len(d) ELSE g.used
        names == IF g.status = "created" THEN Keys(d) ELSE g.names
    IN IF used # Len(d)
       THEN [g |-> [status |-> "raised", pos |-> g.pos, used |-> used, names |-> names],
             yielded |-> None]
       ELSE IF g.pos < Len(d)
       THEN [g |-> [status |-> "suspended", pos |-> g.pos + 1, used |-> used,
                    names |-> names],
             yielded |-> Some(d[g.pos + 1])]
       ELSE [g |-> [status |-> "done", pos |-> g.pos, used |-> used, names |-> names],
             yielded |-> None]

\* what a yield adds to the record of the traversal
Visit(t, yielded) ==
    IF IsNone(yielded) THEN t ELSE Append(t, [yielded |-> The(yielded), sent |-> None])

InitComposite ==
    /\ cfg = Config(PyNone, PyNone, PyNone)
    /\ mo_occ_total = None
    /\ num_particles = None
    /\ molecule_data = ElectronicDriverResult
    /\ outcome = NoCall
    /\ reduced_input = FALSE
    /\ properties = <<>>
    /\ added = <<>>
    /\ gen = None
    /\ trail = <<>>
    /\ num_modals = <<>>
    /\ pauli_table = None
    /\ electronic_integrals = <<>>
    /\ ops = None

Traversing == gen # None /\ The(gen).status \in {"created", "suspended"}

\* composite.add_property(prop), outside a traversal; a generator that has
\* ended is garbage by then
AddProperty ==
    /\ ~ Traversing
    /\ Len(added) < MaxAdds
    /\ \E prop \in PropertyObjects :
        /\ properties' = add_property(properties, prop)
        /\ added' = Append(added, prop)
    /\ gen' = None
    /\ trail' = <<>>
    /\ UNCHANGED asvars
    /\ UNCHANGED <<dmvars, ipvars>>

\* iter(composite): a new generator, the previous one is dropped
Iter ==
    /\ gen' = Some(NewGenerator)
    /\ trail' = <<>>
    /\ UNCHANGED <<properties, added>>
    /\ UNCHANGED asvars
    /\ UNCHANGED <<dmvars, ipvars>>

\* next(generator)
GenNext ==
    /\ Traversing
    /\ LET r == Resume(properties, The(gen))
       IN /\ gen' = Some(r.g)
          /\ trail' = Visit(trail, r.yielded)
    /\ UNCHANGED <<properties, added>>
    /\ UNCHANGED asvars
    /\ UNCHANGED <<dmvars, ipvars>>

\* generator.send(new_property) at a yield: the body adds the property and
\* runs on to the next yield
GenSend ==
    /\ gen # None
    /\ The(gen).status = "suspended"
    /\ Len(added) < MaxAdds
    /\ \E prop \in PropertyObjects :
        LET d == add_property(properties, prop)
            r == Resume(d, The(gen))
        IN /\ properties' = d
           /\ added' = Append(added, prop)
           /\ gen' = Some(r.g)
           /\ trail' = Visit([trail EXCEPT ![Len(trail)].sent = Some(prop)], r.yielded)
    /\ UNCHANGED asvars
    /\ UNCHANGED <<dmvars, ipvars>>

NextComposite == AddProperty \/ Iter \/ GenNext \/ GenSend

SpecComposite == InitComposite /\ [][NextComposite]_vars

----------------------------------------------------------------------------
(* DirectMapper.map *)

\* [0] * k
Zeros(k) == [q \in 1..k |-> 0]

\* np.asarray(bits, dtype=bool)
AsBool(bits) == [q \in 1..Len(bits) |-> bits[q] # 0]

\* the four arrays of loop index i
a_z(i, nmodes) == AsBool(Zeros(i) \o <<0>> \o Zeros(nmodes - i - 1))
a_x(i, nmodes) == AsBool(Zeros(i) \o <<1>> \o Zeros(nmodes - i - 1))
b_zClear(i, nmodes) == AsBool(Zeros(i) \o <<0>> \o Zeros(nmodes - i - 1))
b_z(i, nmodes) == AsBool(Zeros(i) \o <<1>> \o Zeros(nmodes - i - 1))
b_x(i, nmodes) == AsBool(Zeros(i) \o <<1>> \o Zeros(nmodes - i - 1))

\* Pauli((z, x)): a Pauli string in its symplectic form
Pauli(z, x) == [z |-> z, x |-> x]

\* the letters of a Pauli string, qubit by qubit: z and x both set is Y
PauliLabel(p) ==
    [q \in 1..Len(p.z) |->
        IF p.z[q] THEN (IF p.x[q] THEN "Y" ELSE "Z")
        ELSE (IF p.x[q] THEN "X" ELSE "I")]

\* the pauli_table of map: one pair of Pauli strings per i in range(nmodes)
map(modals) ==
    LET nmodes == SumSeq(modals) IN
    [k \in 1..nmodes |->
        <<Pauli(a_z(k - 1, nmodes), a_x(k - 1, nmodes)),
          Pauli(b_z(k - 1, nmodes), b_x(k - 1, nmodes))>>]

\* the modal counts of the operators handed to the mapper
NumModals == UNION {[1..n -> 1..MaxModals] : n \in 1..MaxModes}

InitMapper ==
    /\ cfg = Config(PyNone, PyNone, PyNone)
    /\ mo_occ_total = None
    /\ num_particles = None
    /\ molecule_data = ElectronicDriverResult
    /\ outcome = NoCall
    /\ reduced_input = FALSE
    /\ properties = <<>>
    /\ added = <<>>
    /\ gen = None
    /\ trail = <<>>
    /\ num_modals \in NumModals
    /\ pauli_table = None
    /\ electronic_integrals = <<>>
    /\ ops = None

\* DirectMapper().map(second_q_op), up to the call of mode_based_mapping
DirectMap ==
    /\ pauli_table' = Some(map(num_modals))
    /\ UNCHANGED num_modals
    /\ UNCHANGED <<asvars, cpvars, ipvars>>

NextMapper == DirectMap

SpecMapper == InitMapper /\ [][NextMapper]_vars

----------------------------------------------------------------------------
(* IntegralProperty.second_q_ops, from_driver_result *)

\* ElectronicBasis, from the least to the most transformed
Bases == <<"AO", "MO", "SO">>

\* an ElectronicIntegrals object: the integrals of one body order in one basis
Integrals(basis, body) == [basis |-> basis, body |-> body]

\* int.to_second_q_op(): the operator of one integral object, a sum of one term
to_second_q_op(int) == <<int>>

\* sum(...) of operators: the terms of all of them
RECURSIVE SumOps(_)
SumOps(opseq) == IF opseq = <<>> THEN <<>> ELSE Head(opseq) \o SumOps(Tail(opseq))

\* op.reduce(): like terms coalesced, each with the number of its occurrences
reduce(op) ==
    {<<op[i], Cardinality({j \in 1..Len(op) : op[j] = op[i]})>> : i \in 1..Len(op)}

\* what a call leaves: the method called, the list returned or the exception raised
OpsReturned(call, value) == [call |-> call, kind |-> "ok", exc |-> "", value |-> value]
OpsRaised(call, exc) == [call |-> call, kind |-> "error", exc |-> exc, value |-> <<>>]

\* the integrals second_q_ops picks: those of SO, else those of MO, else None
SelectedIntegrals(d) ==
    IF DictGet(d, "SO") # None THEN Some(The(DictGet(d, "SO")).ints)
    ELSE IF DictGet(d, "MO") # None THEN Some(The(DictGet(d, "MO")).ints)
    ELSE None

\* iterating None raises TypeError
second_q_ops(d) ==
    LET ints == SelectedIntegrals(d) IN
    IF IsNone(ints) THEN OpsRaised("second_q_ops", "TypeError")
    ELSE OpsReturned("second_q_ops",
            <<reduce(SumOps([i \in 1..Len(The(ints)) |-> to_second_q_op(The(ints)[i])]))>>)

from_driver_result == OpsRaised("from_driver_result", "NotImplementedError")

\* the integrals held for one basis: one object per body order, up to order k
IntegralList(basis, k) == [j \in 1..k |-> Integrals(basis, j)]

\* the dicts an IntegralProperty is constructed with: any of the bases, each
\* with its list of integrals
IntegralDicts ==
    {SelectSeq([i \in 1..3 |-> [name |-> Bases[i], ints |-> IntegralList(Bases[i], f[i])]],
               LAMBDA en : en.ints # <<>>) :
        f \in [1..3 -> 0..MaxBody]}

InitIntegrals ==
    /\ cfg = Config(PyNone, PyNone, PyNone)
    /\ mo_occ_total = None
    /\ num_particles = None
    /\ molecule_data = ElectronicDriverResult
    /\ outcome = NoCall
    /\ reduced_input = FALSE
    /\ properties = <<>>
    /\ added = <<>>
    /\ gen = None
    /\ trail = <<>>
    /\ num_modals = <<>>
    /\ pauli_table = None
    /\ electronic_integrals \in IntegralDicts
    /\ ops = None

\* prop.second_q_ops()
SecondQOps ==
    /\ ops' = Some(second_q_ops(electronic_integrals))
    /\ UNCHANGED electronic_integrals
    /\ UNCHANGED <<asvars, cpvars, dmvars>>

\* IntegralProperty.from_driver_result(result)
FromDriverResult ==
    /\ ops' = Some(from_driver_result)
    /\ UNCHANGED electronic_integrals
    /\ UNCHANGED <<asvars, cpvars, dmvars>>

NextIntegrals == SecondQOps \/ FromDriverResult

SpecIntegrals == InitIntegrals /\ [][NextIntegrals]_vars

----------------------------------------------------------------------------
(* Shorthands of the properties below *)

\* a call has been made
Called == outcome.kind # "none"

\* the ParticleNumber of the composite passed to the most recent call
InputPN == ParticleNumberOf(molecule_data)

\* the ParticleNumber of the composite the most recent call returned
OutputPN == ParticleNumberOf(The(outcome.ret))

\* the electron count is a single integer / a pair of integers
SingleTotal == cfg.num_electrons.t = "int"
PairOfCounts ==
    /\ cfg.num_electrons.t = "tuple"
    /\ Len(cfg.num_electrons.v) = 2
    /\ \A i \in 1..2 : cfg.num_electrons.v[i].t = "int"

\* the requested number of active electrons, alpha plus beta
RequestedElectrons ==
    IF SingleTotal THEN cfg.num_electrons.v[1]
    ELSE cfg.num_electrons.v[1].v[1] + cfg.num_electrons.v[2].v[1]

\* total electrons of the input minus the requested active electrons
InactiveElectrons == InputPN.num_alpha + InputPN.num_beta - RequestedElectrons

\* the configured number of active orbitals
RequestedOrbitals == cfg.num_molecular_orbitals.v[1]

\* the configuration passes step 1 as the documentation words it
WellFormed ==
    /\ \/ SingleTotal /\ RequestedElectrons % 2 = 0 /\ RequestedElectrons >= 0
       \/ PairOfCounts /\ \A i \in 1..2 : cfg.num_electrons.v[i].v[1] >= 0
    /\ cfg.num_molecular_orbitals.t = "int"
    /\ RequestedOrbitals >= 0

InfeasibilityMessages ==
    {MsgMoreElectrons, MsgInactiveEven, MsgMoreOrbitals, MsgIndicesCount, MsgElectronsMismatch}

----------------------------------------------------------------------------
(* C1 *)

\* a single-integer configuration that is valid for the supplied system
C1_Valid ==
    /\ ~ reduced_input
    /\ cfg.active_orbitals = PyNone
    /\ SingleTotal
    /\ WellFormed
    /\ InactiveElectrons >= 0
    /\ InactiveElectrons % 2 = 0
    /\ InactiveElectrons \div 2 + RequestedOrbitals <= InputPN.num_spin_orbitals \div 2

\* C1: for every valid single-integer configuration (e, m), transform succeeds
\* and the ParticleNumber of the returned composite reports (e/2, e/2) active
\* electrons, m active orbitals and the occupations of the active orbitals.
C1_ReportsActiveSpace ==
    (Called /\ C1_Valid) =>
        /\ outcome.kind = "ok"
        /\ OutputPN.num_alpha = RequestedElectrons \div 2
        /\ OutputPN.num_beta = RequestedElectrons \div 2
        /\ OutputPN.num_spin_orbitals \div 2 = RequestedOrbitals
        /\ Len(outcome.active) = RequestedOrbitals
        /\ OutputPN.occupation_alpha = Take(InputPN.occupation_alpha, outcome.active)
        /\ OutputPN.occupation_beta = Take(InputPN.occupation_beta, outcome.active)

----------------------------------------------------------------------------
(* C2 *)

\* C2: transforming the composite a successful transform returned, with a
\* configuration whose electron and orbital counts are those of that composite,
\* succeeds and returns a ParticleNumber with the same occupations, electron
\* counts and orbital count.
C2_Idempotent ==
    (/\ reduced_input
     /\ WellFormed
     /\ RequestedParticles(cfg) = <<InputPN.num_alpha, InputPN.num_beta>>
     /\ RequestedOrbitals = Len(InputPN.occupation_alpha)) =>
        /\ outcome.kind = "ok"
        /\ OutputPN.occupation_alpha = InputPN.occupation_alpha
        /\ OutputPN.occupation_beta = InputPN.occupation_beta
        /\ OutputPN.num_alpha = InputPN.num_alpha
        /\ OutputPN.num_beta = InputPN.num_beta
        /\ OutputPN.num_spin_orbitals = InputPN.num_spin_orbitals

----------------------------------------------------------------------------
(* C3 *)

\* C3: transform returns a result only if total electrons minus the requested
\* alpha and beta electrons is non-negative and even; when that number is
\* negative or odd the call raises.
C3_InactiveElectronsEven ==
    Called =>
        /\ outcome.kind = "ok" =>
              /\ SingleTotal \/ PairOfCounts
              /\ InactiveElectrons >= 0
              /\ InactiveElectrons % 2 = 0
        /\ ((SingleTotal \/ PairOfCounts)
                /\ (InactiveElectrons < 0 \/ InactiveElectrons % 2 # 0)) =>
              outcome.kind = "error"
        /\ (WellFormed /\ ~ reduced_input /\ InactiveElectrons < 0) =>
              outcome.error = QiskitNatureError(MsgMoreElectrons, PyNone)
        /\ (WellFormed /\ ~ reduced_input
                /\ InactiveElectrons > 0 /\ InactiveElectrons % 2 # 0) =>
              outcome.error = QiskitNatureError(MsgInactiveEven, PyNone)

\* a pair configuration left an odd number of inactive electrons and was refused
C3_Witness ==
    /\ PairOfCounts
    /\ InactiveElectrons % 2 = 1
    /\ outcome.kind = "error"
    /\ outcome.error.msg = MsgInactiveEven

----------------------------------------------------------------------------
(* C4 *)

\* the three grounds of rejection the documentation names
C4_CountDiffers == Len(cfg.active_orbitals.v) # RequestedOrbitals
C4_OutOfRange ==
    \E i \in 1..Len(cfg.active_orbitals.v) :
        cfg.active_orbitals.v[i] >= InputPN.num_spin_orbitals \div 2
C4_OccupationDiffers ==
    SumSeq([i \in 1..Len(cfg.active_orbitals.v) |->
                InputPN.occupation_alpha[cfg.active_orbitals.v[i] + 1]
                + InputPN.occupation_beta[cfg.active_orbitals.v[i] + 1]])
        # RequestedElectrons

\* C4: with explicit active orbitals (at least one index, so that the list has
\* a largest element) and a non-negative, even inactive electron count,
\* transform is refused with an infeasibility error exactly when the number of
\* indices differs from the configured count, an index is out of range, or the
\* occupation of the active orbitals differs from the requested electrons
\* (alpha + beta for a pair); otherwise the selection is accepted.
C4_ExplicitSelection ==
    (/\ Called
     /\ ~ reduced_input
     /\ cfg.active_orbitals # PyNone
     /\ cfg.active_orbitals.v # <<>>
     /\ WellFormed
     /\ InactiveElectrons >= 0
     /\ InactiveElectrons % 2 = 0) =>
        IF C4_CountDiffers \/ C4_OutOfRange \/ C4_OccupationDiffers
        THEN /\ outcome.kind = "error"
             /\ outcome.error.exc = "QiskitNatureError"
             /\ outcome.error.msg \in InfeasibilityMessages
        ELSE outcome.kind = "ok"

----------------------------------------------------------------------------
(* C5 *)

\* the malformed electron counts and orbital counts
C5_BadElectrons ==
    \/ ~ (cfg.num_electrons.t = "int"
            \/ (cfg.num_electrons.t = "tuple" /\ Len(cfg.num_electrons.v) = 2))
    \/ SingleTotal /\ (RequestedElectrons % 2 # 0 \/ RequestedElectrons < 0)
    \/ /\ cfg.num_electrons.t = "tuple"
       /\ \E i \in 1..Len(cfg.num_electrons.v) :
            cfg.num_electrons.v[i].t # "int" \/ cfg.num_electrons.v[i].v[1] < 0
C5_BadOrbitals ==
    cfg.num_molecular_orbitals.t # "int" \/ RequestedOrbitals < 0

\* C5: a malformed configuration is refused in step 1, before the composite is
\* read, with an error that names the offending field and carries its value;
\* every other configuration passes step 1.
C5_ConfigurationErrors ==
    Called =>
        /\ C5_BadElectrons =>
              /\ outcome.kind = "error"
              /\ outcome.stage = "configuration"
              /\ outcome.error.msg \in {MsgElectronsEven, MsgElectronsNegative,
                                        MsgAlphaBetaNegative, MsgElectronsType}
              /\ outcome.error.value = cfg.num_electrons
        /\ (~ C5_BadElectrons /\ C5_BadOrbitals) =>
              /\ outcome.kind = "error"
              /\ outcome.stage = "configuration"
              /\ outcome.error.msg \in {MsgOrbitalsNegative, MsgOrbitalsType}
              /\ outcome.error.value = cfg.num_molecular_orbitals
        /\ (~ C5_BadElectrons /\ ~ C5_BadOrbitals) => outcome.stage # "configuration"

----------------------------------------------------------------------------
(* C6 *)

\* C6 as stated: every validation failure is raised before the numeric work
\* and reaches the caller in the "Incorrect Active-Space configuration." context.
C6_OneErrorBoundary ==
    (outcome.kind = "error" /\ outcome.error.exc = "QiskitNatureError") =>
        /\ outcome.stage # "numeric"
        /\ outcome.error.context = IncorrectConfiguration

\* C6, amended: every validation failure is raised before the numeric work; a
\* configuration error reaches the caller in the "Incorrect Active-Space
\* configuration." context, an infeasibility error reaches it bare, carrying
\* its own message.
C6_ErrorBoundary ==
    (outcome.kind = "error" /\ outcome.error.exc = "QiskitNatureError") =>
        /\ outcome.stage # "numeric"
        /\ outcome.density = <<None, None>>
        /\ outcome.transform = None
        /\ outcome.ret = None
        /\ ~ WellFormed => outcome.error.context = IncorrectConfiguration
        /\ WellFormed =>
              /\ outcome.error.context = ""
              /\ outcome.error.msg \in InfeasibilityMessages

\* a well-formed configuration asked for more orbitals than the system has
C6_Witness ==
    /\ WellFormed
    /\ outcome.kind = "error"
    /\ outcome.error.msg = MsgMoreOrbitals
    /\ outcome.error.context = ""

----------------------------------------------------------------------------
(* C7 *)

\* C7: the composite a successful transform returns holds the reduced form of
\* every source property that reduces, none of those that do not, and under
\* the name ParticleNumber the property the transformer made, also when the
\* source ParticleNumber reduces itself.
C7_ReducedComposite ==
    outcome.kind = "ok" =>
        LET src == molecule_data.properties
            out == The(outcome.ret).properties
        IN /\ \A i \in 1..Len(src) :
                src[i].name # "ParticleNumber" =>
                    DictGet(out, src[i].name) =
                        IF src[i].reducible
                        THEN Some([src[i] EXCEPT !.origin = "reduced"])
                        ELSE None
           /\ \A i \in 1..Len(out) :
                /\ \A j \in 1..Len(out) : out[i].name = out[j].name => i = j
                /\ out[i].name # "ParticleNumber" =>
                        \E k \in 1..Len(src) : src[k].name = out[i].name
           /\ DictGet(out, "ParticleNumber") # None
           /\ The(DictGet(out, "ParticleNumber")).origin = "transformer"

\* a source whose ParticleNumber reduces itself was transformed
C7_Witness ==
    /\ outcome.kind = "ok"
    /\ The(DictGet(molecule_data.properties, "ParticleNumber")).reducible
    /\ Len(The(outcome.ret).properties) = 2

----------------------------------------------------------------------------
(* C8 *)

\* C8: a call leaves the configuration as constructed and returns what a
\* freshly constructed transformer of the same configuration returns for the
\* same composite; passing the same composite again repeats the outcome.
C8_Pure ==
    [][/\ cfg' = cfg
       /\ outcome' = transform(cfg, FreshState, molecule_data').out
       /\ (molecule_data' = molecule_data /\ Called) => outcome' = outcome]_vars

\* a second call on one transformer, on the composite its first call returned
C8_Witness ==
    /\ reduced_input
    /\ mo_occ_total # None
    /\ outcome.kind = "error"

----------------------------------------------------------------------------
(* C9 *)

\* the position in added of the last property added under name n (0: none)
LastAdded(n) ==
    IF \E i \in 1..Len(added) : added[i].name = n
    THEN CHOOSE i \in 1..Len(added) :
            /\ added[i].name = n
            /\ \A j \in (i + 1)..Len(added) : added[j].name # n
    ELSE 0

\* the position in added at which name n was added first
FirstAdded(n) ==
    CHOOSE i \in 1..Len(added) :
        added[i].name = n /\ \A j \in 1..(i - 1) : added[j].name # n

\* C9: the composite holds one property per name added, the one added last
\* under that name, in the order in which the names were first added;
\* get_property by name or by kind returns it, and None for a name never added.
C9_LastAddedByName ==
    /\ \A i, j \in 1..Len(properties) :
            properties[i].name = properties[j].name => i = j
    /\ \A i, j \in 1..Len(properties) :
            i < j => FirstAdded(properties[i].name) < FirstAdded(properties[j].name)
    /\ \A n \in PropertyNames :
            LET expected == IF LastAdded(n) = 0 THEN None ELSE Some(added[LastAdded(n)])
            IN /\ get_property(properties, StrKey(n)) = expected
               /\ get_property(properties, TypeKey(n)) = expected

\* a name was added again after another name had been added
C9_Witness ==
    /\ Len(properties) = 2
    /\ Len(added) = 3
    /\ added[1].name = added[3].name
    /\ added[1] # added[3]
    /\ properties[1] = added[3]

----------------------------------------------------------------------------
(* C10 *)

\* C10: a traversal yields the properties once each in insertion order and
\* ends; a replacement sent back is stored under the name of the element just
\* visited, the names and their order stay as they were, and the traversal
\* goes on to the remaining elements.
C10_Traversal ==
    gen # None =>
        LET g == The(gen) IN
        /\ g.status # "raised"
        /\ g.status # "created" => Keys(properties) = g.names
        /\ \A i \in 1..Len(trail) :
            /\ i <= Len(g.names)
            /\ trail[i].yielded.name = g.names[i]
            /\ trail[i].sent # None =>
                    DictGet(properties, trail[i].yielded.name) = trail[i].sent
            /\ trail[i].sent = None =>
                    DictGet(properties, trail[i].yielded.name) = Some(trail[i].yielded)
        /\ g.status = "done" => Len(trail) = Len(g.names)

----------------------------------------------------------------------------
(* C11 *)

\* the string with letter l on qubit i (0-based) of n and the identity elsewhere
OnQubit(l, i, n) == [q \in 1..n |-> IF q = i + 1 THEN l ELSE "I"]

\* C11 as stated: the table has one entry per mode, every string is as wide
\* as the table is long, and both templates of mode i are X on qubit i and
\* the identity elsewhere.
C11_SameTemplates ==
    pauli_table # None =>
        LET t == The(pauli_table)
            n == SumSeq(num_modals)
        IN /\ Len(t) = n
           /\ \A k \in 1..Len(t) :
                /\ PauliLabel(t[k][1]) = OnQubit("X", k - 1, n)
                /\ PauliLabel(t[k][2]) = OnQubit("X", k - 1, n)

\* C11, amended: the table has one entry per mode, every string is as wide as
\* the table is long, and the templates of mode i are X on qubit i and Y on
\* qubit i, each the identity elsewhere.
C11_TemplateTable ==
    pauli_table # None =>
        LET t == The(pauli_table)
            n == SumSeq(num_modals)
        IN /\ Len(t) = n
           /\ \A k \in 1..Len(t) :
                /\ Len(t[k][1].z) = n /\ Len(t[k][1].x) = n
                /\ Len(t[k][2].z) = n /\ Len(t[k][2].x) = n
                /\ PauliLabel(t[k][1]) = OnQubit("X", k - 1, n)
                /\ PauliLabel(t[k][2]) = OnQubit("Y", k - 1, n)

\* an operator of several modes with several modals each has been mapped
C11_Witness ==
    /\ pauli_table # None
    /\ Len(num_modals) >= 2
    /\ Len(The(pauli_table)) > Len(num_modals)

----------------------------------------------------------------------------
(* C12 *)

\* the most transformed basis the property holds integrals for
MostTransformed ==
    Bases[CHOOSE i \in 1..3 :
            /\ DictGet(electronic_integrals, Bases[i]) # None
            /\ \A j \in (i + 1)..3 : DictGet(electronic_integrals, Bases[j]) = None]

\* C12: for a property holding integrals of at least one basis, second_q_ops
\* returns a list of exactly one operator, the coalesced sum of one term per
\* integral object of the most transformed basis present; from_driver_result
\* raises NotImplementedError.
C12_MostTransformedBasis ==
    ops # None =>
        /\ (The(ops).call = "second_q_ops" /\ electronic_integrals # <<>>) =>
              LET held == The(DictGet(electronic_integrals, MostTransformed)).ints IN
              /\ The(ops).kind = "ok"
              /\ Len(The(ops).value) = 1
              /\ The(ops).value[1] = {<<held[i], 1>> : i \in 1..Len(held)}
        /\ The(ops).call = "from_driver_result" =>
              /\ The(ops).kind = "error"
              /\ The(ops).exc = "NotImplementedError"

----------------------------------------------------------------------------
(* C13 *)

\* C13: without explicit indices, a well-formed configuration that leaves a
\* non-negative even number 2k of inactive electrons is refused with "More
\* orbitals requested than available." exactly when k + m exceeds the number
\* of spatial orbitals; otherwise the inactive orbitals are 0 .. k-1 and the
\* active orbitals k .. k+m-1, disjoint and within the orbital range.
C13_FermiIndexSets ==
    (/\ Called
     /\ ~ reduced_input
     /\ cfg.active_orbitals = PyNone
     /\ WellFormed
     /\ InactiveElectrons >= 0
     /\ InactiveElectrons % 2 = 0) =>
        LET k == InactiveElectrons \div 2
            m == RequestedOrbitals
            n == InputPN.num_spin_orbitals \div 2
        IN IF k + m > n
           THEN /\ outcome.kind = "error"
                /\ outcome.error = QiskitNatureError(MsgMoreOrbitals, PyNone)
           ELSE /\ outcome.kind = "ok"
                /\ outcome.inactive = [i \in 1..k |-> i - 1]
                /\ outcome.active = [i \in 1..m |-> k + i - 1]
                /\ \A i \in 1..m : outcome.active[i] < n
                /\ \A i \in 1..m, j \in 1..k : outcome.active[i] # outcome.inactive[j]

\* a Fermi-level selection with an inactive and an active orbital
C13_Witness ==
    /\ Called
    /\ ~ reduced_input
    /\ cfg.active_orbitals = PyNone
    /\ outcome.kind = "ok"
    /\ Len(outcome.inactive) >= 1
    /\ Len(outcome.active) >= 1

----------------------------------------------------------------------------
(* C14 *)

\* C14: with explicit indices, a successful call takes the configured indices
\* as the active orbitals and, as the inactive orbitals, every orbital of the
\* system that is not active and has a positive total occupation, and no other.
C14_ExplicitIndexSets ==
    (/\ Called
     /\ ~ reduced_input
     /\ cfg.active_orbitals # PyNone
     /\ outcome.kind = "ok") =>
        /\ outcome.active = cfg.active_orbitals.v
        /\ \A o \in 0..(Len(InputPN.occupation_alpha) - 1) :
                InSeq(o, outcome.inactive) <=>
                    /\ ~ InSeq(o, cfg.active_orbitals.v)
                    /\ InputPN.occupation_alpha[o + 1] + InputPN.occupation_beta[o + 1] > 0
        /\ \A i \in 1..Len(outcome.inactive) :
                outcome.inactive[i] \in 0..(Len(InputPN.occupation_alpha) - 1)

----------------------------------------------------------------------------
(* C15 *)

\* C15: a successful call builds the beta inactive density and the beta
\* coefficients of the new basis transform exactly when the beta coefficient
\* matrix of the input differs from the alpha one; the alpha density is always
\* built, from the inactive columns and the inactive alpha occupations.
C15_BetaChannel ==
    (outcome.kind = "ok" /\ ~ reduced_input) =>
        LET ebt == The(molecule_data.electronic_basis_transform)
            differ == ebt.coeff_alpha # The(ebt.coeff_beta)
        IN /\ (outcome.density[2] # None) <=> differ
           /\ (The(outcome.transform).coeff_beta # None) <=> differ
           /\ outcome.density[1] =
                Some([i \in 1..Len(outcome.inactive) |->
                        <<ebt.coeff_alpha[outcome.inactive[i] + 1],
                          InputPN.occupation_alpha[outcome.inactive[i] + 1]>>])

====
